---- MODULE Spec2Model ----
(***************************************************************************)
(* DriveLedger (src/main.py): the in-memory dealership ledger kept in      *)
(* st.session_state, its three mutating operations (add_vehicle,           *)
(* sell_vehicle, add_expense) and the read-only aggregations               *)
(* (monthly_aggregation_for_year, totals_from_monthly, the profit of       *)
(* page_financial_summary).                                                *)
(*                                                                         *)
(* Money amounts are exact whole units.  A timestamp is the number of      *)
(* whole months elapsed since January of year BaseYear; isoformat turns it *)
(* into the <<year, month>> text the records store and month_key_from_iso  *)
(* reads it back.  The free-text fields (brand, model, customer_name,      *)
(* description) and the vehicle's year and expected_sell_price are stored  *)
(* and never read by any operation modelled here, so records carry only    *)
(* the fields the operations read.                                         *)
(***************************************************************************)
EXTENDS Integers, Sequences, FiniteSets, TLC

(* ---- bounds of the model ---- *)
MaxVehicles == 2
MaxExpenses == 2
MaxTicks == 1
FirstNow == 11

BaseYear == 2024
PurchasePrices == {5, 7}
SalePrices == {9}
ExpenseAmounts == {2}
Threads == {1, 2}
LastNow == FirstNow + MaxTicks
VehicleIds == 1..(MaxVehicles + 1)
Years == (BaseYear - 1)..(BaseYear + (LastNow \div 12))
None == [id |-> 0]
Unset == -1

VARIABLES
  inventory,                \* st.session_state.inventory, head first
  sales,                    \* st.session_state.sales
  expenses,                 \* st.session_state.expenses
  purchase_history,         \* st.session_state.purchase_history
  next_vehicle_id,
  next_sale_id,
  next_expense_id,
  cumulative_purchase_cost,
  total_other_expenses,     \* Unset until add_expense first sets it
  now,                      \* datetime.utcnow(), in months since Jan BaseYear
  last_msg,                 \* the st.success / st.error of the latest handler
  issued,                   \* every Vehicle add_vehicle has built, in order
  pc,                       \* per thread: position inside its handler
  loc,                      \* per thread: the handler's local variables
  db,                       \* the rows of the three tables of driveledger.db
  view                      \* what the page rendered by the latest run shows

store == <<inventory, sales, expenses, purchase_history, next_vehicle_id,
           next_sale_id, next_expense_id, cumulative_purchase_cost,
           total_other_expenses>>
locals == <<pc, loc>>
vars == <<inventory, sales, expenses, purchase_history, next_vehicle_id,
          next_sale_id, next_expense_id, cumulative_purchase_cost,
          total_other_expenses, now, last_msg, issued, pc, loc, db, view>>

(* ---- time ---- *)
utcnow_year(t) == BaseYear + (t \div 12)
utcnow_month(t) == (t % 12) + 1
isoformat(t) == <<utcnow_year(t), utcnow_month(t)>>

fromisoformat_ok(iso_dt) ==
  /\ DOMAIN iso_dt = 1..2
  /\ iso_dt[1] \in Nat
  /\ iso_dt[2] \in 1..12

month_key_from_iso_month_now(iso_dt) == <<iso_dt[1], utcnow_month(now)>>

month_key_from_iso(iso_dt) ==
  IF fromisoformat_ok(iso_dt)
    THEN <<iso_dt[1], iso_dt[2]>>
    ELSE <<utcnow_year(now), utcnow_month(now)>>

(* ---- records ---- *)
Vehicle(vid, purchase_price, date_added) ==
  [id |-> vid, purchase_price |-> purchase_price, date_added |-> date_added]
SaleRecord(sale_id, vid, sale_price, date) ==
  [sale_id |-> sale_id, vehicle_id |-> vid, sale_price |-> sale_price, date |-> date]
ExpenseRecord(eid, amount, date) ==
  [expense_id |-> eid, amount |-> amount, date |-> date]
PurchaseEvent(amount, date) == [amount |-> amount, date |-> date]

Msg(kind, vid, rid) == [kind |-> kind, vid |-> vid, rid |-> rid]
EmptyDb == [vehicles |-> <<>>, sales |-> <<>>, expenses |-> <<>>]
NoView == [page |-> "none"]
IdleLoc == [vid |-> 0, price |-> 0, date |-> <<0, 1>>, sale_id |-> 0, removed |-> FALSE]

(* ---- inventory helpers ---- *)
RECURSIVE find_from(_, _, _)
find_from(inv, vid, i) ==
  IF i > Len(inv) THEN None
  ELSE IF inv[i].id = vid THEN inv[i]
  ELSE find_from(inv, vid, i + 1)

find_vehicle_by_id_or_head(inv, vid) ==
  IF find_from(inv, vid, 1) = None /\ inv # <<>> THEN inv[1] ELSE find_from(inv, vid, 1)

find_vehicle_by_id(inv, vid) == find_from(inv, vid, 1)

pop_head(inv, i) == SubSeq(inv, 2, Len(inv))

pop(inv, i) == SubSeq(inv, 1, i - 1) \o SubSeq(inv, i + 1, Len(inv))

RECURSIVE remove_from(_, _, _)
remove_from(inv, vid, i) ==
  IF i > Len(inv) THEN [inventory |-> inv, removed |-> FALSE]
  ELSE IF inv[i].id = vid THEN [inventory |-> pop(inv, i), removed |-> TRUE]
  ELSE remove_from(inv, vid, i + 1)

remove_vehicle_by_id_keep(inv, vid) ==
  [inventory |-> inv, removed |-> find_vehicle_by_id(inv, vid) # None]

remove_vehicle_by_id(inv, vid) == remove_from(inv, vid, 1)

insert_at_tail(inv, v) == inv \o <<v>>

insert_at_head_replace(inv, v) == <<v>>

insert_at_head(inv, v) == <<v>> \o inv

(* ---- aggregation for the dashboard and the financial summary ---- *)
ZeroMonths == [m \in 0..11 |-> 0]

add_to_month_any_year(arr, key, year, amount) == [arr EXCEPT ![key[2] - 1] = @ + amount]

add_to_month(arr, key, year, amount) ==
  IF key[1] = year THEN [arr EXCEPT ![key[2] - 1] = @ + amount] ELSE arr

RECURSIVE credit_loop(_, _, _)
credit_loop(credit_month, i, year) ==
  IF i > Len(sales) THEN credit_month
  ELSE credit_loop(add_to_month(credit_month, month_key_from_iso(sales[i].date), year,
                                sales[i].sale_price), i + 1, year)

RECURSIVE expense_loop(_, _, _)
expense_loop(debit_month, i, year) ==
  IF i > Len(expenses) THEN debit_month
  ELSE expense_loop(add_to_month(debit_month, month_key_from_iso(expenses[i].date), year,
                                 expenses[i].amount), i + 1, year)

purchase_events_from_inventory ==
  [i \in 1..Len(inventory) |->
     PurchaseEvent(inventory[i].purchase_price, inventory[i].date_added)]

purchase_events == purchase_history

RECURSIVE purchase_loop(_, _, _)
purchase_loop(debit_month, i, year) ==
  IF i > Len(purchase_events) THEN debit_month
  ELSE purchase_loop(add_to_month(debit_month, month_key_from_iso(purchase_events[i].date),
                                  year, purchase_events[i].amount), i + 1, year)

monthly_aggregation_for_year(year) ==
  [debit |-> purchase_loop(expense_loop(ZeroMonths, 1, year), 1, year),
   credit |-> credit_loop(ZeroMonths, 1, year)]

RECURSIVE sum_list_short(_, _)
sum_list_short(arr, i) == IF i >= 11 THEN 0 ELSE arr[i] + sum_list_short(arr, i + 1)

RECURSIVE sum_list(_, _)
sum_list(arr, i) == IF i > 11 THEN 0 ELSE arr[i] + sum_list(arr, i + 1)

totals_from_monthly(debit_month, credit_month) ==
  [total_debit |-> sum_list(debit_month, 0), total_credit |-> sum_list(credit_month, 0)]

RECURSIVE revenue_from(_)
revenue_from(i) == IF i > Len(sales) THEN 0 ELSE sales[i].sale_price + revenue_from(i + 1)

RECURSIVE expenses_from(_)
expenses_from(i) == IF i > Len(expenses) THEN 0 ELSE expenses[i].amount + expenses_from(i + 1)

RECURSIVE stock_cost_from(_)
stock_cost_from(i) ==
  IF i > Len(inventory) THEN 0 ELSE inventory[i].purchase_price + stock_cost_from(i + 1)

financial_summary_profit_of_stock == revenue_from(1) - (stock_cost_from(1) + expenses_from(1))

financial_summary_profit == revenue_from(1) - (cumulative_purchase_cost + expenses_from(1))

Init ==
  /\ inventory = <<>>
  /\ sales = <<>>
  /\ expenses = <<>>
  /\ purchase_history = <<>>
  /\ next_vehicle_id = 1
  /\ next_sale_id = 1
  /\ next_expense_id = 1
  /\ cumulative_purchase_cost = 0
  /\ total_other_expenses = Unset
  /\ now = FirstNow
  /\ last_msg = Msg("none", 0, 0)
  /\ issued = <<>>
  /\ pc = [t \in Threads |-> "idle"]
  /\ loc = [t \in Threads |-> IdleLoc]
  /\ db = EmptyDb
  /\ view = NoView

new_vehicle_id_from_len == Len(inventory) + 1

new_vehicle_id == next_vehicle_id

(* ---- the handlers, each run to completion (one Streamlit script run) ---- *)
add_vehicle_no_cost(purchase_price) ==
  LET vid == new_vehicle_id
      date_added == isoformat(now)
      v == Vehicle(vid, purchase_price, date_added)
  IN /\ next_vehicle_id <= MaxVehicles
     /\ inventory' = insert_at_head(inventory, v)
     /\ next_vehicle_id' = next_vehicle_id + 1
     /\ UNCHANGED cumulative_purchase_cost
     /\ purchase_history' = Append(purchase_history, PurchaseEvent(purchase_price, date_added))
     /\ last_msg' = Msg("vehicle_added", vid, 0)
     /\ issued' = Append(issued, v)
     /\ UNCHANGED <<sales, expenses, next_sale_id, next_expense_id,
                    total_other_expenses, now, locals, db>>
     /\ view' = NoView

add_vehicle(purchase_price) ==
  LET vid == new_vehicle_id
      date_added == isoformat(now)
      v == Vehicle(vid, purchase_price, date_added)
  IN /\ next_vehicle_id <= MaxVehicles
     /\ inventory' = insert_at_head(inventory, v)
     /\ next_vehicle_id' = next_vehicle_id + 1
     /\ cumulative_purchase_cost' = cumulative_purchase_cost + purchase_price
     /\ purchase_history' = Append(purchase_history, PurchaseEvent(purchase_price, date_added))
     /\ last_msg' = Msg("vehicle_added", vid, 0)
     /\ issued' = Append(issued, v)
     /\ UNCHANGED <<sales, expenses, next_sale_id, next_expense_id,
                    total_other_expenses, now, locals, db>>
     /\ view' = NoView

sell_not_found_bump(vid) ==
  /\ last_msg' = Msg("not_found", 0, 0)
  /\ next_sale_id' = next_sale_id + 1
  /\ UNCHANGED <<inventory, sales, expenses, purchase_history, next_vehicle_id,
                 next_expense_id, cumulative_purchase_cost, total_other_expenses,
                 now, issued, locals, db>>
  /\ view' = NoView

sell_not_found(vid) ==
  /\ last_msg' = Msg("not_found", 0, 0)
  /\ UNCHANGED <<store, now, issued, locals, db>>
  /\ view' = NoView

sell_found(vid, sale_price) ==
  LET sale_id == next_sale_id
      rec == SaleRecord(sale_id, vid, sale_price, isoformat(now))
      r == remove_vehicle_by_id(inventory, vid)
  IN /\ sales' = Append(sales, rec)
     /\ inventory' = r.inventory
     /\ IF r.removed
          THEN /\ last_msg' = Msg("sold", vid, sale_id)
               /\ next_sale_id' = next_sale_id + 1
          ELSE /\ last_msg' = Msg("remove_failed", 0, 0)
               /\ UNCHANGED next_sale_id
     /\ UNCHANGED <<expenses, purchase_history, next_vehicle_id, next_expense_id,
                    cumulative_purchase_cost, total_other_expenses, now, issued, locals, db>>
     /\ view' = NoView

sell_vehicle(vid, sale_price) ==
  IF find_vehicle_by_id(inventory, vid) = None
    THEN sell_not_found(vid)
    ELSE sell_found(vid, sale_price)

add_expense_no_incr(amount) ==
  LET eid == next_expense_id
      rec == ExpenseRecord(eid, amount, isoformat(now))
  IN /\ Len(expenses) < MaxExpenses
     /\ expenses' = Append(expenses, rec)
     /\ total_other_expenses' =
          (IF total_other_expenses = Unset THEN 0 ELSE total_other_expenses) + amount
     /\ last_msg' = Msg("expense_added", 0, eid)
     /\ UNCHANGED <<inventory, sales, purchase_history, next_vehicle_id, next_sale_id,
                    next_expense_id, cumulative_purchase_cost, now, issued, locals, db>>
     /\ view' = NoView

add_expense(amount) ==
  LET eid == next_expense_id
      rec == ExpenseRecord(eid, amount, isoformat(now))
  IN /\ next_expense_id <= MaxExpenses
     /\ expenses' = Append(expenses, rec)
     /\ total_other_expenses' =
          (IF total_other_expenses = Unset THEN 0 ELSE total_other_expenses) + amount
     /\ next_expense_id' = next_expense_id + 1
     /\ last_msg' = Msg("expense_added", 0, eid)
     /\ UNCHANGED <<inventory, sales, purchase_history, next_vehicle_id, next_sale_id,
                    cumulative_purchase_cost, now, issued, locals, db>>
     /\ view' = NoView

Tick ==
  /\ now < LastNow
  /\ now' = now + 1
  /\ UNCHANGED <<store, last_msg, issued, locals, db, view>>

(* ---- the read-only pages ---- *)
StartingBalances == {100}

adjusted_balance_debit_added(starting_balance, total_debit, total_credit) ==
  starting_balance + (total_credit + total_debit)

adjusted_balance(starting_balance, total_debit, total_credit) ==
  starting_balance + (total_credit - total_debit)

years_available ==
  {month_key_from_iso(purchase_history[i].date)[1] : i \in 1..Len(purchase_history)}
  \cup {month_key_from_iso(sales[i].date)[1] : i \in 1..Len(sales)}
  \cup {month_key_from_iso(expenses[i].date)[1] : i \in 1..Len(expenses)}
  \cup {utcnow_year(now)}

dashboard_page(year, starting_balance) ==
  /\ year \in years_available
  /\ \E agg \in {monthly_aggregation_for_year(year)} :
       \E totals \in {totals_from_monthly(agg.debit, agg.credit)} :
         view' = [page |-> "dashboard", year |-> year,
                  starting_balance |-> starting_balance,
                  debit_month |-> agg.debit, credit_month |-> agg.credit,
                  total_debit |-> totals.total_debit,
                  total_credit |-> totals.total_credit,
                  adjusted_balance |-> adjusted_balance(starting_balance,
                                                        totals.total_debit,
                                                        totals.total_credit)]
  /\ UNCHANGED <<store, now, last_msg, issued, locals, db>>

status_of_no_break_even(profit) == IF profit >= 0 THEN "PROFIT" ELSE "LOSS"

status_of(profit) ==
  IF profit > 0 THEN "PROFIT"
  ELSE IF profit < 0 THEN "LOSS"
  ELSE "BREAK-EVEN"

page_financial_summary ==
  /\ view' = [page |-> "summary", profit |-> financial_summary_profit,
              status |-> status_of(financial_summary_profit),
              vehicles_sold |-> Len(sales), vehicles_in_inventory |-> Len(inventory)]
  /\ UNCHANGED <<store, now, last_msg, issued, locals, db>>

DashboardOp == \E y \in Years, b \in StartingBalances : dashboard_page(y, b)

AddVehicleOp == \E p \in PurchasePrices : add_vehicle(p)
SellVehicleOp == \E vid \in VehicleIds, s \in SalePrices : sell_vehicle(vid, s)
AddExpenseOp == \E a \in ExpenseAmounts : add_expense(a)

Next ==
  \/ AddVehicleOp
  \/ SellVehicleOp
  \/ AddExpenseOp
  \/ DashboardOp
  \/ page_financial_summary
  \/ Tick

Spec == Init /\ [][Next]_vars

(* ---- the same handlers, statement by statement, run by two sessions ---- *)
(* ---- that share one store with no lock around a handler.  The clock  ---- *)
(* ---- stands still and each session adds at most one vehicle, which  ---- *)
(* ---- is a subset of the interleavings the unlocked code allows.     ---- *)
AddsBegun == Len(issued) + Cardinality({u \in Threads : pc[u] \in {"av_insert", "av_incr", "av_record"}})

av_read(t, purchase_price) ==
  /\ pc[t] = "idle"
  /\ AddsBegun < Cardinality(Threads)
  /\ loc' = [loc EXCEPT ![t] = [IdleLoc EXCEPT !.vid = new_vehicle_id,
                                               !.price = purchase_price,
                                               !.date = isoformat(now)]]
  /\ pc' = [pc EXCEPT ![t] = "av_insert"]
  /\ UNCHANGED <<db, view, store, now, last_msg, issued>>

av_insert(t) ==
  /\ pc[t] = "av_insert"
  /\ inventory' = insert_at_head(inventory, Vehicle(loc[t].vid, loc[t].price, loc[t].date))
  /\ pc' = [pc EXCEPT ![t] = "av_incr"]
  /\ UNCHANGED <<db, view, sales, expenses, purchase_history, next_vehicle_id, next_sale_id,
                 next_expense_id, cumulative_purchase_cost, total_other_expenses,
                 now, last_msg, issued, loc>>

av_incr(t) ==
  /\ pc[t] = "av_incr"
  /\ next_vehicle_id' = next_vehicle_id + 1
  /\ pc' = [pc EXCEPT ![t] = "av_record"]
  /\ UNCHANGED <<db, view, inventory, sales, expenses, purchase_history, next_sale_id,
                 next_expense_id, cumulative_purchase_cost, total_other_expenses,
                 now, last_msg, issued, loc>>

av_record(t) ==
  /\ pc[t] = "av_record"
  /\ cumulative_purchase_cost' = cumulative_purchase_cost + loc[t].price
  /\ purchase_history' = Append(purchase_history, PurchaseEvent(loc[t].price, loc[t].date))
  /\ last_msg' = Msg("vehicle_added", loc[t].vid, 0)
  /\ issued' = Append(issued, Vehicle(loc[t].vid, loc[t].price, loc[t].date))
  /\ pc' = [pc EXCEPT ![t] = "idle"]
  /\ loc' = [loc EXCEPT ![t] = IdleLoc]
  /\ UNCHANGED <<db, view, inventory, sales, expenses, next_vehicle_id, next_sale_id,
                 next_expense_id, total_other_expenses, now>>

sv_find(t, vid, sale_price) ==
  /\ pc[t] = "idle"
  /\ IF find_vehicle_by_id(inventory, vid) = None
       THEN /\ last_msg' = Msg("not_found", 0, 0)
            /\ UNCHANGED <<pc, loc>>
       ELSE /\ loc' = [loc EXCEPT ![t] = [IdleLoc EXCEPT !.vid = vid, !.price = sale_price]]
            /\ pc' = [pc EXCEPT ![t] = "sv_append"]
            /\ UNCHANGED last_msg
  /\ UNCHANGED <<db, view, store, now, issued>>

sv_append(t) ==
  /\ pc[t] = "sv_append"
  /\ sales' = Append(sales, SaleRecord(next_sale_id, loc[t].vid, loc[t].price, isoformat(now)))
  /\ loc' = [loc EXCEPT ![t].sale_id = next_sale_id]
  /\ pc' = [pc EXCEPT ![t] = "sv_remove"]
  /\ UNCHANGED <<db, view, inventory, expenses, purchase_history, next_vehicle_id, next_sale_id,
                 next_expense_id, cumulative_purchase_cost, total_other_expenses,
                 now, last_msg, issued>>

sv_remove(t) ==
  LET r == remove_vehicle_by_id(inventory, loc[t].vid)
  IN /\ pc[t] = "sv_remove"
     /\ inventory' = r.inventory
     /\ loc' = [loc EXCEPT ![t].removed = r.removed]
     /\ pc' = [pc EXCEPT ![t] = "sv_finish"]
     /\ UNCHANGED <<db, view, sales, expenses, purchase_history, next_vehicle_id, next_sale_id,
                    next_expense_id, cumulative_purchase_cost, total_other_expenses,
                    now, last_msg, issued>>

sv_finish(t) ==
  /\ pc[t] = "sv_finish"
  /\ IF loc[t].removed
       THEN /\ last_msg' = Msg("sold", loc[t].vid, loc[t].sale_id)
            /\ next_sale_id' = next_sale_id + 1
       ELSE /\ last_msg' = Msg("remove_failed", 0, 0)
            /\ UNCHANGED next_sale_id
  /\ pc' = [pc EXCEPT ![t] = "idle"]
  /\ loc' = [loc EXCEPT ![t] = IdleLoc]
  /\ UNCHANGED <<db, view, inventory, sales, expenses, purchase_history, next_vehicle_id,
                 next_expense_id, cumulative_purchase_cost, total_other_expenses,
                 now, issued>>

AvRead == \E t \in Threads, p \in PurchasePrices : av_read(t, p)
AvInsert == \E t \in Threads : av_insert(t)
AvIncr == \E t \in Threads : av_incr(t)
AvRecord == \E t \in Threads : av_record(t)
SvFind == \E t \in Threads, vid \in VehicleIds, s \in SalePrices : sv_find(t, vid, s)
SvAppend == \E t \in Threads : sv_append(t)
SvRemove == \E t \in Threads : sv_remove(t)
SvFinish == \E t \in Threads : sv_finish(t)

NextConc ==
  \/ AvRead
  \/ AvInsert
  \/ AvIncr
  \/ AvRecord
  \/ SvFind
  \/ SvAppend
  \/ SvRemove
  \/ SvFinish

SpecConc == Init /\ [][NextConc]_vars

(* ======================= properties ======================= *)
SoldIn(S, v) == \E i \in 1..Len(S) : S[i].vehicle_id = v
DateIdx(d) == d[1] * 12 + d[2]
Months == 1..12

RECURSIVE SumAt(_, _)
SumAt(f, S) ==
  IF S = {} THEN 0
  ELSE LET i == CHOOSE x \in S : TRUE IN f[i] + SumAt(f, S \ {i})

SalePriceOf == [i \in 1..Len(sales) |-> sales[i].sale_price]
ExpenseAmountOf == [i \in 1..Len(expenses) |-> expenses[i].amount]
PurchaseAmountOf == [i \in 1..Len(purchase_history) |-> purchase_history[i].amount]
IssuedPriceOf == [i \in 1..Len(issued) |-> issued[i].purchase_price]

(* C1: once a vehicle id is referenced by a Sale, find_vehicle_by_id does  *)
(* not find it after that step nor after any later step: a sold vehicle    *)
(* never comes back into the inventory.                                    *)
C1_SoldNeverFoundAgain ==
  [][\A v \in VehicleIds :
       (SoldIn(sales, v) \/ SoldIn(sales', v)) => find_vehicle_by_id(inventory', v) = None]_vars

C1_Witness ==
  /\ Len(sales) >= 1
  /\ Len(inventory) >= 1
  /\ DateIdx(inventory[1].date_added) > DateIdx(sales[1].date)
  /\ last_msg.kind = "not_found"
  /\ find_vehicle_by_id(inventory, sales[1].vehicle_id) = None

(* C2: every vehicle id is referenced by at most one Sale record, and no   *)
(* vehicle id is both in the inventory and referenced by a Sale record.    *)
C2_SoldOnceAndNotInStock ==
  /\ \A i, j \in 1..Len(sales) : i # j => sales[i].vehicle_id # sales[j].vehicle_id
  /\ \A i \in 1..Len(sales), k \in 1..Len(inventory) : sales[i].vehicle_id # inventory[k].id

C2_Witness ==
  /\ Len(sales) >= 1
  /\ Len(inventory) >= 1
  /\ inventory[1].id < sales[1].vehicle_id

(* C3: the ids add_vehicle assigns are strictly increasing in the order of *)
(* the calls, hence pairwise distinct, also after earlier vehicles were    *)
(* sold and removed from the inventory.                                    *)
C3_IdsStrictlyIncreasing ==
  \A i, j \in 1..Len(issued) : i < j => issued[i].id < issued[j].id

C3_Witness ==
  /\ Len(issued) >= 2
  /\ Len(sales) >= 1
  /\ inventory = <<issued[Len(issued)]>>
  /\ DateIdx(issued[Len(issued)].date_added) > DateIdx(sales[Len(sales)].date)

(* C4: a sell_vehicle that reports not-found leaves inventory, sales,      *)
(* expenses, purchase history, cumulative purchase cost and the three      *)
(* counters as they were.                                                  *)
C4_NotFoundChangesNothing ==
  [][last_msg'.kind = "not_found" => UNCHANGED store]_vars

C4_Witness ==
  /\ last_msg.kind = "not_found"
  /\ Len(inventory) >= 1
  /\ Len(sales) >= 1
  /\ Len(expenses) >= 1

(* C5: in every state each vehicle ever added is covered by the debit of   *)
(* the month it was bought in and each sale by the credit of its month,    *)
(* and no step (a sale in particular) lowers any debit bucket.             *)
PurchasesDebited ==
  \A i \in 1..Len(issued) :
    LET k == issued[i].date_added
    IN monthly_aggregation_for_year(k[1]).debit[k[2] - 1] >= issued[i].purchase_price

SalesCredited ==
  \A i \in 1..Len(sales) :
    LET k == sales[i].date
    IN monthly_aggregation_for_year(k[1]).credit[k[2] - 1] >= sales[i].sale_price

DebitOf(y, m) == monthly_aggregation_for_year(y).debit[m - 1]
CreditOf(y, m) == monthly_aggregation_for_year(y).credit[m - 1]

DebitNotLowered ==
  \A y \in Years :
    \A before \in {monthly_aggregation_for_year(y).debit} :
      \A after \in {monthly_aggregation_for_year(y).debit'} :
        \A m \in Months : after[m - 1] >= before[m - 1]

C5_PurchaseDebitKept ==
  /\ [](PurchasesDebited /\ SalesCredited)
  /\ [][store' # store => DebitNotLowered]_vars

C5_Witness ==
  /\ Len(sales) >= 1
  /\ \E i \in 1..Len(issued) :
       /\ issued[i].id = sales[1].vehicle_id
       /\ issued[i].date_added = sales[1].date
       /\ DebitOf(sales[1].date[1], sales[1].date[2]) >= issued[i].purchase_price
       /\ CreditOf(sales[1].date[1], sales[1].date[2]) >= sales[1].sale_price
  /\ sales[1].sale_price > 0
  /\ now > DateIdx(sales[1].date) - (BaseYear * 12 + 1)

(* C6: for every year and month, Credit[m] is the sum of the sale prices   *)
(* of the Sales dated in (year, m) and Debit[m] is the sum of the Expense  *)
(* amounts plus the sum of the purchase-event amounts dated in (year, m).  *)
C6_BucketsAreMonthlySums ==
  \A y \in Years :
   \A agg \in {monthly_aggregation_for_year(y)} :
    \A m \in Months :
    /\ agg.credit[m - 1] =
         SumAt(SalePriceOf, {i \in 1..Len(sales) : sales[i].date = <<y, m>>})
    /\ agg.debit[m - 1] =
         SumAt(ExpenseAmountOf, {i \in 1..Len(expenses) : expenses[i].date = <<y, m>>})
         + SumAt(PurchaseAmountOf,
                 {i \in 1..Len(purchase_history) : purchase_history[i].date = <<y, m>>})

C6_Witness ==
  /\ Len(purchase_history) = 2
  /\ purchase_history[1].date = purchase_history[2].date
  /\ Len(sales) = 1
  /\ DateIdx(sales[1].date) = DateIdx(purchase_history[1].date) + 1
  /\ sales[1].date[1] # purchase_history[1].date[1]
  /\ DebitOf(purchase_history[1].date[1], purchase_history[1].date[2]) = 12
  /\ DebitOf(sales[1].date[1], sales[1].date[2]) = 0
  /\ CreditOf(sales[1].date[1], sales[1].date[2]) = 9
  /\ CreditOf(purchase_history[1].date[1], purchase_history[1].date[2]) = 0

(* C7: the net profit/loss of the financial summary is the sum of all sale *)
(* prices minus (the purchase prices of all vehicles ever added plus all   *)
(* expense amounts), over the whole history.                               *)
C7_ProfitOverWholeHistory ==
  financial_summary_profit =
    SumAt(SalePriceOf, 1..Len(sales))
    - (SumAt(IssuedPriceOf, 1..Len(issued)) + SumAt(ExpenseAmountOf, 1..Len(expenses)))

C7_Witness ==
  /\ Len(issued) = 1
  /\ inventory = <<>>
  /\ Len(sales) = 1
  /\ Len(expenses) = 1
  /\ expenses[1].date[1] # issued[1].date_added[1]
  /\ financial_summary_profit = 9 - (5 + 2)

(* C8: the three counters start at 1; the k-th Sale has sale_id k and the  *)
(* k-th Expense has expense_id k; every step raises a counter by exactly   *)
(* the number (0 or 1) of records of its kind the step created.            *)
CountersStartAtOne ==
  next_vehicle_id = 1 /\ next_sale_id = 1 /\ next_expense_id = 1

IdsAreOrdinals ==
  /\ \A k \in 1..Len(sales) : sales[k].sale_id = k
  /\ \A k \in 1..Len(expenses) : expenses[k].expense_id = k
  /\ \A k \in 1..Len(issued) : issued[k].id = k

CountersFollowCreations ==
  /\ Len(issued') - Len(issued) \in {0, 1}
  /\ Len(sales') - Len(sales) \in {0, 1}
  /\ Len(expenses') - Len(expenses) \in {0, 1}
  /\ next_vehicle_id' = next_vehicle_id + (Len(issued') - Len(issued))
  /\ next_sale_id' = next_sale_id + (Len(sales') - Len(sales))
  /\ next_expense_id' = next_expense_id + (Len(expenses') - Len(expenses))

C8_CountersCountCreations ==
  /\ CountersStartAtOne
  /\ []IdsAreOrdinals
  /\ [][CountersFollowCreations]_vars

C8_Witness ==
  /\ Len(sales) = 2
  /\ Len(expenses) = 2
  /\ last_msg.kind = "not_found"
  /\ next_sale_id = 3
  /\ next_expense_id = 3

(* C9: two add_vehicle calls interleaved statement by statement never get  *)
(* the same vehicle id.                                                    *)
C9_ConcurrentAddsGetDistinctIds ==
  \A i, j \in 1..Len(issued) : i # j => issued[i].id # issued[j].id

(* C10: once sell_vehicle has appended its Sale and then failed to remove  *)
(* the vehicle, the failure is fatal: the store accepts no further change  *)
(* and no session starts another handler.                                  *)
C10_RemovalFailureIsFatal ==
  [][last_msg.kind = "remove_failed" =>
       /\ UNCHANGED store
       /\ \A t \in Threads : pc[t] = "idle" => pc'[t] = "idle"]_vars

(* C11: every Vehicle, Sale and Expense created in memory has its row in   *)
(* the persistent store: the three tables hold as many rows as records     *)
(* were created.                                                           *)
C11_WriteThrough ==
  /\ Len(db.vehicles) = Len(issued)
  /\ Len(db.sales) = Len(sales)
  /\ Len(db.expenses) = Len(expenses)

(* C12: for every year the aggregation is two arrays of exactly 12         *)
(* entries, zero in every month without events, and totals_from_monthly    *)
(* returns the sum of the 12 entries of each.                              *)
C12_TwelveBucketsAndTotals ==
  \A y \in Years :
    \A agg \in {monthly_aggregation_for_year(y)} :
      \A totals \in {totals_from_monthly(agg.debit, agg.credit)} :
        /\ DOMAIN agg.debit = 0..11
        /\ DOMAIN agg.credit = 0..11
        /\ \A m \in Months :
             /\ (\A i \in 1..Len(sales) : sales[i].date # <<y, m>>)
                  => agg.credit[m - 1] = 0
             /\ ((\A i \in 1..Len(expenses) : expenses[i].date # <<y, m>>)
                 /\ (\A i \in 1..Len(purchase_history) : purchase_history[i].date # <<y, m>>))
                  => agg.debit[m - 1] = 0
        /\ totals.total_debit = SumAt(agg.debit, 0..11)
        /\ totals.total_credit = SumAt(agg.credit, 0..11)

C12_Witness ==
  /\ view.page = "dashboard"
  /\ view.total_debit = 5 + 7 + 2
  /\ view.total_credit = 9
  /\ view.debit_month[0] = 0
  /\ view.debit_month[11] = 14

(* C13: rendering the dashboard changes nothing in the store, and two      *)
(* renderings for the same year with no mutating operation between them    *)
(* show the same debit and credit arrays.                                  *)
C13_AggregationIsPureRead ==
  [][/\ (view'.page = "dashboard" /\ view' # view) => UNCHANGED <<store, issued, db>>
     /\ (view.page = "dashboard" /\ view'.page = "dashboard" /\ view'.year = view.year)
          => (view'.debit_month = view.debit_month /\ view'.credit_month = view.credit_month)]_vars

C13_Witness ==
  /\ view.page = "dashboard"
  /\ view.year = BaseYear + (FirstNow \div 12)
  /\ view.total_debit > 0
  /\ view.total_credit > 0
  /\ now > FirstNow

(* C14: the status shown by the financial summary is PROFIT exactly when   *)
(* profit > 0, LOSS exactly when profit < 0, BREAK-EVEN exactly when       *)
(* profit = 0.                                                             *)
C14_StatusByExactSign ==
  view.page = "summary" =>
    /\ view.status \in {"PROFIT", "LOSS", "BREAK-EVEN"}
    /\ (view.status = "PROFIT") <=> (view.profit > 0)
    /\ (view.status = "LOSS") <=> (view.profit < 0)
    /\ (view.status = "BREAK-EVEN") <=> (view.profit = 0)

C14_Witness ==
  /\ view.page = "summary"
  /\ view.status = "BREAK-EVEN"
  /\ Len(sales) = 1
  /\ Len(expenses) = 1

(* C15: the adjusted balance shown for the selected year is the starting   *)
(* balance plus (that year's total credit minus that year's total debit);  *)
(* 100 with debit 500 and credit 300 gives -100.                           *)
YearCredit(y) == SumAt(SalePriceOf, {i \in 1..Len(sales) : sales[i].date[1] = y})
YearDebit(y) ==
  SumAt(ExpenseAmountOf, {i \in 1..Len(expenses) : expenses[i].date[1] = y})
  + SumAt(PurchaseAmountOf, {i \in 1..Len(purchase_history) : purchase_history[i].date[1] = y})

C15_AdjustedBalance ==
  /\ adjusted_balance(100, 500, 300) = -100
  /\ view.page = "dashboard" =>
       view.adjusted_balance =
         view.starting_balance + (YearCredit(view.year) - YearDebit(view.year))

C15_Witness ==
  /\ view.page = "dashboard"
  /\ view.total_credit = 9
  /\ view.total_debit = 5 + 2
  /\ view.adjusted_balance = 100 + (9 - 7)

(* C16: the inventory ids strictly decrease from the head of the list; an  *)
(* add puts the new vehicle at the head and a sale removes one vehicle and *)
(* keeps the others in their order.                                        *)
RemoveAt(seq, k) == [i \in 1..(Len(seq) - 1) |-> IF i < k THEN seq[i] ELSE seq[i + 1]]

InventoryNewestFirst ==
  \A i, j \in 1..Len(inventory) : i < j => inventory[i].id > inventory[j].id

InventoryOrderKept ==
  /\ Len(inventory') > Len(inventory) => Tail(inventory') = inventory
  /\ Len(inventory') < Len(inventory) =>
       \E k \in 1..Len(inventory) : inventory' = RemoveAt(inventory, k)

SaleStepRemovesAndCounts ==
  Len(sales') > Len(sales) =>
    /\ last_msg'.kind = "sold"
    /\ Len(inventory') = Len(inventory) - 1
    /\ find_from(inventory', sales'[Len(sales')].vehicle_id, 1) = None
    /\ next_sale_id' = next_sale_id + 1

C17_RemovalNeverFails ==
  /\ [](last_msg.kind # "remove_failed")
  /\ [][SaleStepRemovesAndCounts]_vars

C17_Witness ==
  /\ last_msg.kind = "sold"
  /\ last_msg.rid = 2
  /\ Len(sales) = 2

(* C18: cumulative_purchase_cost is the sum of the amounts in              *)
(* purchase_history; only add_vehicle changes either, and then the cost    *)
(* does not go down and the history only grows at its end.                 *)
CostAndHistoryChangeOnlyOnAdd ==
  (cumulative_purchase_cost' # cumulative_purchase_cost
   \/ purchase_history' # purchase_history) =>
    /\ last_msg'.kind = "vehicle_added"
    /\ next_vehicle_id' = next_vehicle_id + 1
    /\ cumulative_purchase_cost' >= cumulative_purchase_cost
    /\ Len(purchase_history') = Len(purchase_history) + 1
    /\ SubSeq(purchase_history', 1, Len(purchase_history)) = purchase_history

C18_CostMatchesHistory ==
  /\ [](cumulative_purchase_cost = SumAt(PurchaseAmountOf, 1..Len(purchase_history)))
  /\ [][CostAndHistoryChangeOnlyOnAdd]_vars

C18_Witness ==
  /\ Len(purchase_history) = 2
  /\ cumulative_purchase_cost = 12
  /\ Len(sales) >= 1
  /\ Len(expenses) >= 1

(* C19: in-stock vehicles plus Sale records number the vehicles ever       *)
(* added, which is next_vehicle_id - 1 and the length of purchase_history; *)
(* every Sale refers to an id add_vehicle assigned; the counts shown by    *)
(* the financial summary add up to the vehicles ever added.                *)
C19_VehiclesConserved ==
  /\ Len(inventory) + Len(sales) = Len(issued)
  /\ Len(issued) = next_vehicle_id - 1
  /\ Len(purchase_history) = Len(issued)
  /\ \A i \in 1..Len(sales) : \E k \in 1..Len(issued) : issued[k].id = sales[i].vehicle_id
  /\ view.page = "summary" => view.vehicles_sold + view.vehicles_in_inventory = Len(issued)

C19_Witness ==
  /\ view.page = "summary"
  /\ view.vehicles_sold = 1
  /\ view.vehicles_in_inventory = 1

====
